---- MODULE Spec2Model ----
(***************************************************************************)
(* Model of the QC dashboard: the backend coordinator (express/socket.io  *)
(* server holding currentData, the Excel backing file and its chokidar    *)
(* watcher) and the dashboard viewers (React state `samples`, socket      *)
(* handlers and the three table edits).                                   *)
(*                                                                         *)
(* Measurements are floats in the source; the model writes them in tenths *)
(* (27.2 is 272) so that they are integers.                               *)
(***************************************************************************)
EXTENDS Integers, Sequences, FiniteSets, TLC

\* ------------------------------------------------------------------ bounds
MaxInputs == 2       \* inputs from outside: submissions, POSTs, file edits,
                     \* table edits, disconnects and connection errors
MaxLen == 6          \* longest series a viewer may build with addSample
MaxInbox == 2        \* 'data-update' messages in flight to one socket

\* the sockets that may connect: two dashboards
Viewers == {1, 2}

\* origin of a write that is no viewer socket (HTTP client, out-of-band edit)
NoSocket == 0

\* ------------------------------------------------------------------ data
\* Two values that are no measurement: the float NaN, and a cell holding a
\* non-empty text that is no number. Every number of the model is an integer
\* or NaN.
NaN == -1000001
Text == -1000002

Sample(i, w, h) == [id |-> i, weight |-> w, hardness |-> h]

\* the dummy series both the server and the dashboard fall back to
FallbackSeries ==
    << Sample(1, 272, 101), Sample(2, 268, 98), Sample(3, 275, 103),
       Sample(4, 265, 95), Sample(5, 278, 108) >>

\* series that editors submit (socket 'update-data' or POST /api/data)
SeriesA == << Sample(1, 270, 100), Sample(2, 271, 99) >>
SeriesB == << Sample(1, 260, 90) >>
UpdatePool == {SeriesA, SeriesB}

\* the backing file: absent, unreadable, or a table of rows. A row is a
\* function from the column names it has a cell for to the cell's number.
MissingFile == [exists |-> FALSE, readable |-> FALSE, rows |-> << >>]
CorruptFile == [exists |-> TRUE, readable |-> FALSE, rows |-> << >>]
TableFile(rows) == [exists |-> TRUE, readable |-> TRUE, rows |-> rows]

\* tables as they may sit on disk at startup or after an out-of-band edit
TableStart == TableFile(<< [id |-> 1, weight |-> 250, hardness |-> 80],
                           [id |-> 2, weight |-> 251, hardness |-> 81] >>)
TableEdited == TableFile(<< [id |-> 7, Weight |-> 300, hardness |-> 90],
                            [weight |-> 301] >>)
InitFiles == {MissingFile, CorruptFile, TableStart}
ExternalPool == {CorruptFile, TableEdited}

\* ------------------------------------------------------------------ state
VARIABLES
    pc,            \* "start" before the startup code has run, then "ready"
    currentData,   \* the server's authoritative series
    file,          \* the Excel backing file
    watcher,       \* TRUE when the chokidar watcher was installed
    changePending, \* a 'change' event of the watcher is waiting to be handled
    connected,     \* sockets the server holds
    inbox,         \* per socket: 'data-update' messages on their way to the viewer
    toServer,      \* per socket: 'update-data' messages on their way to the server
    samples,       \* per viewer: the dashboard's React state
    \* history variables, read by the properties only
    seq,           \* number of series the server has made authoritative
    fileCause,     \* socket whose update wrote the file last, or NoSocket
    extPending,    \* the pending change includes an out-of-band edit
    lastApplied,   \* the last update or out-of-band edit applied: its series,
                   \* the socket it came from, whether its write succeeded
    srvGood,       \* currentData came from a successful load or an update
    viewGood,      \* per viewer: samples came from such a series
    got,           \* per viewer: seq of the last data-update it handled
    last,          \* the last step: its name, socket, and what it did in order
    inputs,        \* inputs from outside so far
    \* the pure functions (loading a table, the rule engine), evaluated one
    \* call at a time
    call,          \* the function called and its arguments
    result         \* what it returned, << >> before it has returned

vars == << pc, currentData, file, watcher, changePending, connected, inbox,
           toServer, samples, seq, fileCause, extPending, lastApplied,
           srvGood, viewGood, got, last, inputs, call, result >>

\* no pure function is being evaluated
NoCall == [fn |-> "none"]

Step(op, v, log, ok) == [op |-> op, v |-> v, log |-> log, loadOk |-> ok]

\* ------------------------------------------------------------------ persistence
Has(row, col) == col \in DOMAIN row

\* JavaScript truthiness of a cell: an absent cell, the number 0 and NaN are
\* falsy, any other number and a non-empty text are truthy
Truthy(row, col) == Has(row, col) /\ row[col] # 0 /\ row[col] # NaN

\* parseFloat gives a number back, and NaN for a text that is no number
parseFloat(x) == IF x = Text THEN NaN ELSE x

\* row.weight || row.Weight || 0
Cell(row, lower, upper) ==
    IF Truthy(row, lower) THEN row[lower]
    ELSE IF Truthy(row, upper) THEN row[upper]
    ELSE 0

\* jsonData.map((row, index) => ...), index + 1 being the 1-based position
transform(rows) ==
    [p \in 1 .. Len(rows) |->
        [id |-> IF Truthy(rows[p], "id") THEN rows[p].id ELSE p,
         weight |-> parseFloat(Cell(rows[p], "weight", "Weight")),
         hardness |-> parseFloat(Cell(rows[p], "hardness", "Hardness"))]]

\* readExcelFile with a catch that returns nothing instead of the dummy data
readExcelFileNoFallback(f) ==
    IF ~f.exists THEN [data |-> FallbackSeries, ok |-> FALSE]
    ELSE IF ~f.readable THEN [data |-> << >>, ok |-> FALSE]
    ELSE [data |-> transform(f.rows), ok |-> TRUE]

\* readExcelFile: the series it returns, and whether the load succeeded
readExcelFile(f) ==
    IF ~f.exists THEN [data |-> FallbackSeries, ok |-> FALSE]
    ELSE IF ~f.readable THEN [data |-> FallbackSeries, ok |-> FALSE]
    ELSE [data |-> transform(f.rows), ok |-> TRUE]

\* ------------------------------------------------------------------ server steps
\* A handler is the composition, in the order of its statements, of steps on
\* the record of what the server can change; log records the order.
ServerState ==
    [currentData |-> currentData, file |-> file, changePending |-> changePending,
     fileCause |-> fileCause, extPending |-> extPending, inbox |-> inbox,
     log |-> << >>]

\* a 'data-update' message: the series, and for the properties the number of
\* the update that sent it, the socket whose write caused it, and whether the
\* series came from a successful load or an update
Msg(data, cause, good) ==
    [data |-> data, seq |-> seq + 1, cause |-> cause, good |-> good]

Applied(d, by, saved) == [data |-> d, by |-> by, saved |-> saved]

\* an update merged into the current series instead of replacing it
setCurrentDataMerge(st, d) ==
    [st EXCEPT !.currentData = @ \o d, !.log = Append(@, "replace")]

\* currentData = newData
setCurrentData(st, d) ==
    [st EXCEPT !.currentData = d, !.log = Append(@, "replace")]

\* writeExcelFile: json_to_sheet writes one row per sample; a failure is
\* caught and logged and leaves the file as it was. A write of the watched
\* file raises the watcher's 'change' event.
writeExcelFile(st, d, ok, who) ==
    IF ok
    THEN [st EXCEPT !.file = TableFile(d),
                    !.changePending = @ \/ watcher,
                    !.fileCause = IF watcher THEN who ELSE @,
                    !.extPending = IF watcher /\ ~st.changePending THEN FALSE ELSE @,
                    !.log = Append(@, "persist")]
    ELSE [st EXCEPT !.log = Append(@, "persist")]

\* socket.emit / io.emit / socket.broadcast.emit to the sockets in `to`
emit(st, to, m) ==
    [st EXCEPT !.inbox = [u \in Viewers |->
                             IF u \in to THEN Append(st.inbox[u], m) ELSE st.inbox[u]],
               !.log = Append(@, "broadcast")]

\* socket.broadcast.emit: every connected socket but the sender
broadcastEmit(st, v, m) == emit(st, connected \ {v}, m)

\* io.emit that leaves out the socket whose write caused the message
ioEmitButCause(st, m) == emit(st, connected \ {m.cause}, m)

\* io.emit: every connected socket
ioEmit(st, m) == emit(st, connected, m)

\* the update-data handler with the broadcast moved before the write
onUpdateDataBroadcastFirst(st, v, d, ok) ==
    LET s1 == setCurrentData(st, d)
        s2 == broadcastEmit(s1, v, Msg(d, v, TRUE))
    IN writeExcelFile(s2, d, ok, v)

\* the body of socket.on('update-data') for socket v
onUpdateData(st, v, d, ok) ==
    LET s1 == setCurrentData(st, d)
        s2 == writeExcelFile(s1, d, ok, v)
    IN broadcastEmit(s2, v, Msg(d, v, TRUE))

\* the body of app.post('/api/data')
onPostApiData(st, d, ok) ==
    LET s1 == setCurrentData(st, d)
        s2 == writeExcelFile(s1, d, ok, NoSocket)
    IN ioEmit(s2, Msg(s2.currentData, NoSocket, TRUE))

\* the body of watcher.on('change'), r being what readExcelFile returned
onChange(st, r) ==
    LET s1 == setCurrentData(st, r.data)
    IN ioEmit(s1, Msg(r.data, st.fileCause, r.ok))

Room(to) == \A u \in to : Len(inbox[u]) < MaxInbox

Commit(st) ==
    /\ currentData' = st.currentData
    /\ file' = st.file
    /\ changePending' = st.changePending
    /\ fileCause' = st.fileCause
    /\ extPending' = st.extPending
    /\ inbox' = st.inbox

\* ------------------------------------------------------------------ initial state
Init ==
    /\ pc = "start"
    /\ currentData = << >>
    /\ file \in InitFiles
    /\ watcher = FALSE
    /\ changePending = FALSE
    /\ connected = {}
    /\ inbox = [v \in Viewers |-> << >>]
    /\ toServer = [v \in Viewers |-> << >>]
    /\ samples = [v \in Viewers |-> << >>]
    /\ seq = 0
    /\ fileCause = NoSocket
    /\ extPending = FALSE
    /\ lastApplied = Applied(<< >>, NoSocket, TRUE)
    /\ srvGood = FALSE
    /\ viewGood = [v \in Viewers |-> FALSE]
    /\ got = [v \in Viewers |-> 0]
    /\ last = Step("init", NoSocket, << >>, TRUE)
    /\ inputs = 0
    /\ call = NoCall
    /\ result = << >>

\* ------------------------------------------------------------------ server actions
\* the module's top-level code: install the watcher if the file exists, read
\* the initial data, listen
Startup ==
    /\ pc = "start"
    /\ LET r == readExcelFile(file) IN
        /\ watcher' = file.exists
        /\ currentData' = r.data
        /\ lastApplied' = Applied(r.data, NoSocket, TRUE)
        /\ srvGood' = r.ok
        /\ last' = Step("startup", NoSocket, << "replace" >>, r.ok)
    /\ pc' = "ready"
    /\ seq' = seq + 1
    /\ UNCHANGED << file, changePending, connected, inbox, toServer, samples,
                    fileCause, extPending, viewGood, got, inputs, call,
                    result >>

\* a server that accepts connections before its startup code has read the data
ConnectionBeforeStartup(v) ==
    /\ v \notin connected
    /\ connected' = connected \cup {v}
    /\ inbox' = [inbox EXCEPT ![v] = << [data |-> currentData, seq |-> seq,
                                         cause |-> NoSocket, good |-> srvGood] >>]
    /\ toServer' = [toServer EXCEPT ![v] = << >>]
    /\ last' = Step("connection", v, << "greet" >>, TRUE)
    /\ UNCHANGED << pc, currentData, file, watcher, changePending, samples,
                    seq, fileCause, extPending, lastApplied, srvGood, viewGood,
                    got, inputs, call, result >>

\* io.on('connection'): greet the new socket with the current data
Connection(v) ==
    /\ pc = "ready"
    /\ v \notin connected
    /\ connected' = connected \cup {v}
    /\ inbox' = [inbox EXCEPT ![v] = << [data |-> currentData, seq |-> seq,
                                         cause |-> NoSocket, good |-> srvGood] >>]
    /\ toServer' = [toServer EXCEPT ![v] = << >>]
    /\ last' = Step("connection", v, << "greet" >>, TRUE)
    /\ UNCHANGED << pc, currentData, file, watcher, changePending, samples,
                    seq, fileCause, extPending, lastApplied, srvGood, viewGood,
                    got, inputs, call, result >>

\* socket.on('update-data'): replace, persist, broadcast to the others
UpdateData(v, ok) ==
    /\ pc = "ready"
    /\ v \in connected
    /\ toServer[v] # << >>
    /\ Room(connected)
    /\ LET d == Head(toServer[v])
           st == onUpdateData(ServerState, v, d, ok)
       IN /\ Commit(st)
          /\ lastApplied' = Applied(d, v, ok)
          /\ last' = Step("update-data", v, st.log, TRUE)
    /\ toServer' = [toServer EXCEPT ![v] = Tail(@)]
    /\ seq' = seq + 1
    /\ srvGood' = TRUE
    /\ UNCHANGED << pc, watcher, connected, samples, viewGood, got, inputs,
                    call, result >>

\* app.post('/api/data'): replace, persist, emit to all
PostApiData(d, ok) ==
    /\ pc = "ready"
    /\ inputs < MaxInputs
    /\ Room(connected)
    /\ LET st == onPostApiData(ServerState, d, ok)
       IN /\ Commit(st)
          /\ lastApplied' = Applied(d, NoSocket, ok)
          /\ last' = Step("post", NoSocket, st.log, TRUE)
    /\ seq' = seq + 1
    /\ srvGood' = TRUE
    /\ inputs' = inputs + 1
    /\ UNCHANGED << pc, watcher, connected, toServer, samples, viewGood, got,
                    call, result >>

\* watcher.on('change'): reload, replace, emit to all
WatcherChange ==
    /\ pc = "ready"
    /\ watcher
    /\ changePending
    /\ Room(connected)
    /\ LET r == readExcelFile(file)
           st == onChange(ServerState, r)
       IN /\ Commit([st EXCEPT !.changePending = FALSE, !.extPending = FALSE])
          /\ lastApplied' = IF extPending THEN Applied(r.data, NoSocket, TRUE)
                          ELSE lastApplied
          /\ srvGood' = r.ok
          /\ last' = Step("change", NoSocket, st.log, r.ok)
    /\ seq' = seq + 1
    /\ UNCHANGED << pc, watcher, connected, toServer, samples, viewGood, got,
                    inputs, call, result >>

\* someone edits the backing file directly
ExternalEdit(f) ==
    /\ inputs < MaxInputs
    /\ file.exists
    /\ file' = f
    /\ changePending' = (changePending \/ watcher)
    /\ extPending' = (extPending \/ watcher)
    /\ fileCause' = NoSocket
    /\ inputs' = inputs + 1
    /\ last' = Step("external-edit", NoSocket, << >>, TRUE)
    /\ UNCHANGED << pc, currentData, watcher, connected, inbox, toServer,
                    samples, seq, lastApplied, srvGood, viewGood, got, call,
                    result >>

\* the socket closes (the viewer unmounts, or the connection drops); what was
\* in flight on it is lost
Disconnect(v) ==
    /\ v \in connected
    /\ inputs < MaxInputs
    /\ connected' = connected \ {v}
    /\ inbox' = [inbox EXCEPT ![v] = << >>]
    /\ toServer' = [toServer EXCEPT ![v] = << >>]
    /\ inputs' = inputs + 1
    /\ last' = Step("disconnect", v, << >>, TRUE)
    /\ UNCHANGED << pc, currentData, file, watcher, changePending, samples,
                    seq, fileCause, extPending, lastApplied, srvGood, viewGood,
                    got, call, result >>

\* ------------------------------------------------------------------ viewer actions
\* socket.on('data-update'): setSamples(newData)
DataUpdate(v) ==
    /\ v \in connected
    /\ inbox[v] # << >>
    /\ samples' = [samples EXCEPT ![v] = Head(inbox[v]).data]
    /\ got' = [got EXCEPT ![v] = Head(inbox[v]).seq]
    /\ viewGood' = [viewGood EXCEPT ![v] = Head(inbox[v]).good]
    /\ inbox' = [inbox EXCEPT ![v] = Tail(@)]
    /\ last' = Step("data-update", v, << >>, TRUE)
    /\ UNCHANGED << pc, currentData, file, watcher, changePending, connected,
                    toServer, seq, fileCause, extPending, lastApplied, srvGood,
                    inputs, call, result >>

\* socket.on('connect_error'): a (re)connection attempt of a socket that is
\* not connected failed; setSamples(dummy data)
ConnectError(v) ==
    /\ v \notin connected
    /\ inputs < MaxInputs
    /\ samples' = [samples EXCEPT ![v] = FallbackSeries]
    /\ viewGood' = [viewGood EXCEPT ![v] = FALSE]
    /\ inputs' = inputs + 1
    /\ last' = Step("connect_error", v, << >>, TRUE)
    /\ UNCHANGED << pc, currentData, file, watcher, changePending, connected,
                    inbox, toServer, seq, fileCause, extPending, lastApplied,
                    srvGood, got, call, result >>

\* a client of the socket emits 'update-data' with a series. The dashboard
\* itself has no such emit; the server accepts it from any connected socket.
EmitUpdateData(v, d) ==
    /\ v \in connected
    /\ inputs < MaxInputs
    /\ toServer[v] = << >>
    /\ toServer' = [toServer EXCEPT ![v] = Append(@, d)]
    /\ inputs' = inputs + 1
    /\ last' = Step("emit-update-data", v, << >>, TRUE)
    /\ UNCHANGED << pc, currentData, file, watcher, changePending, connected,
                    inbox, samples, seq, fileCause, extPending, lastApplied,
                    srvGood, viewGood, got, call, result >>

\* values typed into a table cell, after parseFloat(value) || 0
EditValues == {266}
Fields == {"weight", "hardness"}

\* [...samples, {id: samples.length + 1, weight: 0, hardness: 0}]
addSample(s) == Append(s, Sample(Len(s) + 1, 0, 0))

\* samples.map(s => s.id === id ? {...s, [field]: value} : s)
updateSample(s, id, field, value) ==
    [i \in 1 .. Len(s) |->
        IF s[i].id = id THEN [s[i] EXCEPT ![field] = value] ELSE s[i]]

\* samples.filter(s => s.id !== id)
deleteSample(s, id) == SelectSeq(s, LAMBDA x : x.id # id)

Ids(s) == {s[i].id : i \in 1 .. Len(s)}

\* a table edit changes the viewer's React state and nothing else
Edit(v, s, op) ==
    /\ inputs < MaxInputs
    /\ samples' = [samples EXCEPT ![v] = s]
    /\ inputs' = inputs + 1
    /\ last' = Step(op, v, << >>, TRUE)
    /\ UNCHANGED << pc, currentData, file, watcher, changePending, connected,
                    inbox, toServer, seq, fileCause, extPending, lastApplied,
                    srvGood, viewGood, got, call, result >>

AddSample(v) ==
    /\ Len(samples[v]) < MaxLen
    /\ Edit(v, addSample(samples[v]), "addSample")

UpdateSample(v) ==
    \E id \in Ids(samples[v]), field \in Fields, value \in EditValues :
        Edit(v, updateSample(samples[v], id, field, value), "updateSample")

DeleteSample(v) ==
    \E id \in Ids(samples[v]) :
        Edit(v, deleteSample(samples[v], id), "deleteSample")

\* ------------------------------------------------------------------ specification
Next ==
    \/ Startup
    \/ \E v \in Viewers : Connection(v)
    \/ \E v \in Viewers, ok \in BOOLEAN : UpdateData(v, ok)
    \/ \E d \in UpdatePool, ok \in BOOLEAN : PostApiData(d, ok)
    \/ WatcherChange
    \/ \E f \in ExternalPool : ExternalEdit(f)
    \/ \E v \in Viewers : Disconnect(v)
    \/ \E v \in Viewers : DataUpdate(v)
    \/ \E v \in Viewers : ConnectError(v)
    \/ \E v \in Viewers, d \in UpdatePool : EmitUpdateData(v, d)
    \/ \E v \in Viewers : AddSample(v)
    \/ \E v \in Viewers : UpdateSample(v)
    \/ \E v \in Viewers : DeleteSample(v)

Spec == Init /\ [][Next]_vars

\* ------------------------------------------------------------------ properties
LastOf(q) == q[Len(q)]

EditOps == {"addSample", "updateSample", "deleteSample"}
UpdateOps == {"update-data", "post"}

\* C1. Last-write-wins: after an editor's update B has been applied, whatever
\* was applied before it, the authoritative series is B and stays B until a
\* further update or an out-of-band file edit is applied.
C1_LastWriteWins ==
    (pc = "ready" /\ lastApplied.by \in Viewers) =>
        currentData = lastApplied.data

\* C2. Origin exclusion: an update of a viewer is sent to every other connected
\* viewer, and no data-update caused by a viewer's own write is ever on its
\* way to that viewer.
C2_OriginExclusion ==
    /\ last.op = "update-data" =>
          \A u \in connected \ {last.v} :
              inbox[u] # << >> /\ LastOf(inbox[u]).data = currentData
    /\ \A v \in Viewers : \A i \in 1 .. Len(inbox[v]) : inbox[v][i].cause # v

\* nothing is in flight: no submitted update, no undelivered data-update, no
\* unhandled change of the watched file
Quiescent ==
    /\ pc = "ready"
    /\ ~changePending
    /\ \A v \in Viewers : inbox[v] = << >> /\ toServer[v] = << >>

\* C3. Convergence: when nothing is in flight, every connected viewer's samples
\* equal the server's currentData.
C3_Convergence ==
    Quiescent => \A v \in connected : samples[v] = currentData

\* C4. An edit made in a connected viewer (addSample, updateSample,
\* deleteSample) is submitted to the server: the step that makes the edit puts
\* the edited series on the viewer's socket as an 'update-data' message.
C4_EditsSubmitted ==
    [][(last'.op \in EditOps /\ last'.v \in connected) =>
          /\ toServer'[last'.v] # << >>
          /\ LastOf(toServer'[last'.v]) = samples'[last'.v]]_vars

\* C5. Save failure is non-fatal: after an update N whose write failed, the
\* authoritative series is N and stays N until the next update or out-of-band
\* edit is applied, and N was broadcast to the viewers other than its origin.
C5_SaveFailureKeepsUpdate ==
    /\ (pc = "ready" /\ ~lastApplied.saved) => currentData = lastApplied.data
    /\ (last.op = "update-data" /\ ~lastApplied.saved) =>
          \A u \in connected \ {last.v} :
              inbox[u] # << >> /\ LastOf(inbox[u]).data = lastApplied.data

\* the fallback series as the claim gives it
DocumentedFallback ==
    << [id |-> 1, weight |-> 272, hardness |-> 101],
       [id |-> 2, weight |-> 268, hardness |-> 98],
       [id |-> 3, weight |-> 275, hardness |-> 103],
       [id |-> 4, weight |-> 265, hardness |-> 95],
       [id |-> 5, weight |-> 278, hardness |-> 108] >>

\* C6. initialize never fails: when the startup load fails (file missing, or
\* unreadable), startup still completes and the authoritative series is the
\* documented 5-sample fallback.
C6_InitializeFallsBack ==
    (last.op = "startup" /\ (~file.exists \/ ~file.readable)) =>
        pc = "ready" /\ currentData = DocumentedFallback

C6_Witness ==
    /\ last.op = "startup"
    /\ file = CorruptFile
    /\ currentData = DocumentedFallback

\* C7. A series that came from a successful load or from an update is never
\* replaced by the fallback: not the server's by a failing reload of the
\* watched file, not a viewer's by a connection error.
C7_GoodSeriesKept ==
    [][/\ (last'.op = "change" /\ ~last'.loadOk /\ srvGood) =>
              currentData' = currentData
       /\ (last'.op = "connect_error" /\ viewGood[last'.v]) =>
              samples'[last'.v] = samples[last'.v]]_vars

\* the series that loading TableEdited gives, row by row
LoadedTableEdited ==
    << [id |-> 7, weight |-> 300, hardness |-> 90],
       [id |-> 2, weight |-> 301, hardness |-> 0] >>

\* C8. External change: a change of the watched file raises the watcher's
\* event, and handling it makes the reloaded series authoritative and puts it
\* last on the way to every connected viewer, none excluded.
C8_ExternalChange ==
    /\ (last.op = "external-edit" /\ watcher) => changePending
    /\ last.op = "change" =>
          /\ file = TableEdited => currentData = LoadedTableEdited
          /\ file.exists /\ ~file.readable => currentData = DocumentedFallback
          /\ \A v \in connected :
                inbox[v] # << >> /\ LastOf(inbox[v]).data = currentData

C8_Witness ==
    /\ last.op = "change"
    /\ file = TableEdited
    /\ connected = Viewers
    /\ \A v \in Viewers : LastOf(inbox[v]).data = LoadedTableEdited

\* every series that is submitted or can be loaded, whole
WholeSeries ==
    {<< >>, DocumentedFallback, SeriesA, SeriesB, LoadedTableEdited,
     << [id |-> 1, weight |-> 250, hardness |-> 80],
        [id |-> 2, weight |-> 251, hardness |-> 81] >>}

\* C9. Updates are serialized in arrival order: every viewer gets the series
\* of the updates in the order the server applied them, and the authoritative
\* series is always one whole submitted or loaded series.
C9_Serialized ==
    /\ currentData \in WholeSeries
    /\ \A v \in Viewers :
          /\ \A i \in 1 .. Len(inbox[v]) : inbox[v][i].data \in WholeSeries
          /\ \A i, j \in 1 .. Len(inbox[v]) :
                i < j => inbox[v][i].seq < inbox[v][j].seq
          /\ inbox[v] # << >> => got[v] <= Head(inbox[v]).seq

C9_Witness ==
    \E v \in Viewers :
        /\ got[v] >= 2
        /\ Len(inbox[v]) = 2
        /\ inbox[v][1].data # inbox[v][2].data

\* C10. An update takes effect in a fixed order: the authoritative series is
\* replaced, then the write of the file is attempted, then the series is
\* broadcast; nothing is sent before the write attempt is over.
C10_FixedOrder ==
    last.op \in UpdateOps => last.log = << "replace", "persist", "broadcast" >>

C10_Witness ==
    /\ last.op = "update-data"
    /\ file # TableFile(currentData)
    /\ \E u \in connected \ {last.v} : LastOf(inbox[u]).data = currentData

\* C11. Greeting: the first data-update on the way to a viewer that has just
\* connected carries the authoritative series of that moment, and a
\* connection is only accepted once the startup load has made a series
\* authoritative: nobody is greeted with the placeholder of before startup.
C11_Greeting ==
    /\ last.op = "connection" =>
          /\ pc = "ready"
          /\ inbox[last.v] # << >>
          /\ Head(inbox[last.v]).data = currentData
    /\ \A v \in Viewers : \A i \in 1 .. Len(inbox[v]) : inbox[v][i].seq >= 1
    /\ connected # {} => pc = "ready"

C11_Witness ==
    /\ last.op = "connection"
    /\ currentData = SeriesA
    /\ Head(inbox[last.v]).data = SeriesA

\* ------------------------------------------------------------------ loading a table
MaxRows == 2         \* rows of a table that is loaded

\* the sync model at rest, while a pure function is evaluated
SyncIdle ==
    /\ pc = "start"
    /\ currentData = << >>
    /\ file = MissingFile
    /\ watcher = FALSE
    /\ changePending = FALSE
    /\ connected = {}
    /\ inbox = [v \in Viewers |-> << >>]
    /\ toServer = [v \in Viewers |-> << >>]
    /\ samples = [v \in Viewers |-> << >>]
    /\ seq = 0
    /\ fileCause = NoSocket
    /\ extPending = FALSE
    /\ lastApplied = Applied(<< >>, NoSocket, TRUE)
    /\ srvGood = FALSE
    /\ viewGood = [v \in Viewers |-> FALSE]
    /\ got = [v \in Viewers |-> 0]
    /\ last = Step("init", NoSocket, << >>, TRUE)
    /\ inputs = 0

syncVars == << pc, currentData, file, watcher, changePending, connected, inbox,
               toServer, samples, seq, fileCause, extPending, lastApplied,
               srvGood, viewGood, got, last, inputs >>

\* the header texts under which a sheet may hold the weight column
WeightNames == {"weight", "Weight", "WEIGHT"}

\* a row with an id cell or none, one weight column that holds a cell or
\* none, and a hardness cell
SheetRow(hasId, i, wname, hasW, w, h) ==
    [c \in (IF hasId THEN {"id"} ELSE {}) \cup (IF hasW THEN {wname} ELSE {})
           \cup {"hardness"} |->
        IF c = "id" THEN i ELSE IF c = "hardness" THEN h ELSE w]

RowPool ==
    {SheetRow(hasId, i, wname, hasW, w, 80) :
        hasId \in BOOLEAN, i \in {3, 7}, wname \in WeightNames,
        hasW \in BOOLEAN, w \in {0, 250, Text}}

SeqsUpTo(S, n) == UNION {[1 .. k -> S] : k \in 0 .. n}

LoadInit ==
    /\ SyncIdle
    /\ call \in {[fn |-> "readExcelFile", rows |-> rows, returned |-> FALSE] :
                    rows \in SeqsUpTo(RowPool, MaxRows)}
    /\ result = << >>

\* readExcelFile on a workbook whose first sheet holds call.rows
Load ==
    /\ call.fn = "readExcelFile"
    /\ ~call.returned
    /\ result' = readExcelFile(TableFile(call.rows)).data
    /\ call' = [call EXCEPT !.returned = TRUE]
    /\ UNCHANGED syncVars

LoadNext == Load

SpecLoad == LoadInit /\ [][LoadNext]_vars

\* the weight cell of a row, whatever the letter case of its column name
WeightCell(row) ==
    LET cols == DOMAIN row \cap WeightNames
    IN IF cols = {} THEN Text ELSE row[CHOOSE c \in cols : TRUE]

\* C12. Loading the persisted table: the sample of the row at position p has
\* the number of the row's weight cell (column name in any letter case), or 0
\* when the cell is missing or no number, and the row's id, or p when the id
\* cell is missing.
C12_LoadTable ==
    (call.fn = "readExcelFile" /\ call.returned) =>
        /\ Len(result) = Len(call.rows)
        /\ \A p \in 1 .. Len(call.rows) :
              /\ result[p].weight =
                    IF WeightCell(call.rows[p]) = Text THEN 0
                    ELSE WeightCell(call.rows[p])
              /\ result[p].hardness = call.rows[p].hardness
              /\ result[p].id =
                    IF Has(call.rows[p], "id") THEN call.rows[p].id ELSE p

\* ------------------------------------------------------------------ float arithmetic
\* IEEE arithmetic on the model's numbers: NaN propagates through every
\* operation and every comparison with NaN is false.
FSub(a, b) == IF a = NaN \/ b = NaN THEN NaN ELSE a - b
FMul(a, b) == IF a = NaN \/ b = NaN THEN NaN ELSE a * b
FAbs(a) == IF a = NaN THEN NaN ELSE IF a < 0 THEN -a ELSE a
FGt(a, b) == a # NaN /\ b # NaN /\ a > b
FLt(a, b) == a # NaN /\ b # NaN /\ a < b
FGe(a, b) == a # NaN /\ b # NaN /\ a >= b

\* ------------------------------------------------------------------ the rule engine
\* Positions are 1-based: index i of the source is position i + 1.

\* data.slice(i - (w - 1), i + 1): the w values ending at position q
Slice(data, q, w) == SubSeq(data, q - w + 1, q)

\* Math.abs(v - mean) > k * sd
Far(v, k, mean, sd) == FGt(FAbs(FSub(v, mean)), FMul(k, sd))

\* slice.every(v => v > mean)
AllAbove(sl, mean) == \A j \in 1 .. Len(sl) : FGt(sl[j], mean)
\* slice.every(v => v < mean)
AllBelow(sl, mean) == \A j \in 1 .. Len(sl) : FLt(sl[j], mean)

\* slice.every((v, j) => j === 0 || v > slice[j - 1])
Increasing(sl) == \A j \in 2 .. Len(sl) : FGt(sl[j], sl[j - 1])
\* slice.every((v, j) => j === 0 || v < slice[j - 1])
Decreasing(sl) == \A j \in 2 .. Len(sl) : FLt(sl[j], sl[j - 1])

\* the inner loop of rule 4: no j in 2 .. 13 (0-based) has
\* currChange * prevChange >= 0
Alternating(sl) ==
    \A j \in 3 .. Len(sl) :
        ~FGe(FMul(FSub(sl[j], sl[j - 1]), FSub(sl[j - 1], sl[j - 2])), 0)

\* slice.filter(v => Math.abs(v - mean) > k * sd).length
CountFar(sl, k, mean, sd) ==
    Cardinality({j \in 1 .. Len(sl) : Far(sl[j], k, mean, sd)})

\* Rule 1 with >= for >
rule1Inclusive(V, data, mean, sd) ==
    [q \in 1 .. Len(data) |->
        IF q >= 1 /\ FGe(FAbs(FSub(data[q], mean)), FMul(3, sd))
        THEN Append(V[q], 1) ELSE V[q]]

\* Rule 1: one point beyond 3 sigma
rule1(V, data, mean, sd) ==
    [q \in 1 .. Len(data) |->
        IF q >= 1 /\ Far(data[q], 3, mean, sd)
        THEN Append(V[q], 1) ELSE V[q]]

\* Rule 2 with >= and <= for > and <
rule2Inclusive(V, data, mean, sd) ==
    [q \in 1 .. Len(data) |->
        IF q >= 9 /\ (\/ \A j \in q - 8 .. q : FGe(data[j], mean)
                      \/ \A j \in q - 8 .. q : FGe(mean, data[j]))
        THEN Append(V[q], 2) ELSE V[q]]

\* Rule 2: 9 consecutive points on the same side of the mean
rule2(V, data, mean, sd) ==
    [q \in 1 .. Len(data) |->
        IF q >= 9 /\ (\/ AllAbove(Slice(data, q, 9), mean)
                      \/ AllBelow(Slice(data, q, 9), mean))
        THEN Append(V[q], 2) ELSE V[q]]

\* Rule 3 with >= and <= for > and <
rule3Inclusive(V, data, mean, sd) ==
    [q \in 1 .. Len(data) |->
        IF q >= 6 /\ (\/ \A j \in q - 4 .. q : FGe(data[j], data[j - 1])
                      \/ \A j \in q - 4 .. q : FGe(data[j - 1], data[j]))
        THEN Append(V[q], 3) ELSE V[q]]

\* Rule 3 on the 6 values starting at the point instead of ending at it
rule3Ahead(V, data, mean, sd) ==
    [q \in 1 .. Len(data) |->
        IF q >= 1 /\ q + 5 <= Len(data)
                  /\ (\/ Increasing(Slice(data, q + 5, 6))
                      \/ Decreasing(Slice(data, q + 5, 6)))
        THEN Append(V[q], 3) ELSE V[q]]

\* Rule 3: 6 points steadily increasing or decreasing
rule3(V, data, mean, sd) ==
    [q \in 1 .. Len(data) |->
        IF q >= 6 /\ (\/ Increasing(Slice(data, q, 6))
                      \/ Decreasing(Slice(data, q, 6)))
        THEN Append(V[q], 3) ELSE V[q]]

\* Rule 4 with > for >=: equal consecutive values pass
rule4TiesPass(V, data, mean, sd) ==
    IF Len(data) >= 14
    THEN [q \in 1 .. Len(data) |->
            IF q >= 14 /\ (\A j \in q - 11 .. q :
                        ~FGt(FMul(FSub(data[j], data[j - 1]),
                                  FSub(data[j - 1], data[j - 2])), 0))
            THEN Append(V[q], 4) ELSE V[q]]
    ELSE V

\* Rule 4 over 13 values
rule4Short(V, data, mean, sd) ==
    IF Len(data) >= 13
    THEN [q \in 1 .. Len(data) |->
            IF q >= 13 /\ Alternating(Slice(data, q, 13))
            THEN Append(V[q], 4) ELSE V[q]]
    ELSE V

\* Rule 4: 14 points alternating up and down
rule4(V, data, mean, sd) ==
    IF Len(data) >= 14
    THEN [q \in 1 .. Len(data) |->
            IF q >= 14 /\ Alternating(Slice(data, q, 14))
            THEN Append(V[q], 4) ELSE V[q]]
    ELSE V

\* Rule 5 that counts only the points above the mean
rule5OneSide(V, data, mean, sd) ==
    [q \in 1 .. Len(data) |->
        IF q >= 3 /\ Cardinality({j \in q - 2 .. q :
                        FGt(FSub(data[j], mean), FMul(2, sd))}) >= 2
        THEN Append(V[q], 5) ELSE V[q]]

\* Rule 5: 2 out of 3 points beyond 2 sigma
rule5(V, data, mean, sd) ==
    [q \in 1 .. Len(data) |->
        IF q >= 3 /\ CountFar(Slice(data, q, 3), 2, mean, sd) >= 2
        THEN Append(V[q], 5) ELSE V[q]]

\* Rule 6: 4 out of 5 points beyond 1 sigma
rule6(V, data, mean, sd) ==
    [q \in 1 .. Len(data) |->
        IF q >= 5 /\ CountFar(Slice(data, q, 5), 1, mean, sd) >= 4
        THEN Append(V[q], 6) ELSE V[q]]

\* Rule 7 with <= for <
rule7Inclusive(V, data, mean, sd) ==
    [q \in 1 .. Len(data) |->
        IF q >= 15 /\ (\A j \in q - 14 .. q :
                        FGe(sd, FAbs(FSub(data[j], mean))))
        THEN Append(V[q], 7) ELSE V[q]]

\* Rule 7 on data.slice(i - 15, i): the 15 values before the point
rule7Behind(V, data, mean, sd) ==
    [q \in 1 .. Len(data) |->
        IF q >= 16 /\ (\A j \in q - 15 .. q - 1 :
                        FLt(FAbs(FSub(data[j], mean)), sd))
        THEN Append(V[q], 7) ELSE V[q]]

\* Rule 7: 15 points within 1 sigma
rule7(V, data, mean, sd) ==
    [q \in 1 .. Len(data) |->
        IF q >= 15 /\ (\A j \in q - 14 .. q :
                        FLt(FAbs(FSub(data[j], mean)), sd))
        THEN Append(V[q], 7) ELSE V[q]]

\* Rule 8: 8 points beyond 1 sigma on either side
rule8(V, data, mean, sd) ==
    [q \in 1 .. Len(data) |->
        IF q >= 8 /\ (\A j \in q - 7 .. q :
                        FGt(FAbs(FSub(data[j], mean)), sd))
        THEN Append(V[q], 8) ELSE V[q]]

\* checkNelsonRules with the loops in the opposite order
checkNelsonRulesReversed(data, mean, sd) ==
    LET v0 == [q \in 1 .. Len(data) |-> << >>]
        v1 == rule8(v0, data, mean, sd)
        v2 == rule7(v1, data, mean, sd)
        v3 == rule6(v2, data, mean, sd)
        v4 == rule5(v3, data, mean, sd)
        v5 == rule4(v4, data, mean, sd)
        v6 == rule3(v5, data, mean, sd)
        v7 == rule2(v6, data, mean, sd)
    IN rule1(v7, data, mean, sd)

\* checkNelsonRules: one array per point, filled rule after rule
checkNelsonRules(data, mean, sd) ==
    LET v0 == [q \in 1 .. Len(data) |-> << >>]
        v1 == rule1(v0, data, mean, sd)
        v2 == rule2(v1, data, mean, sd)
        v3 == rule3(v2, data, mean, sd)
        v4 == rule4(v3, data, mean, sd)
        v5 == rule5(v4, data, mean, sd)
        v6 == rule6(v5, data, mean, sd)
        v7 == rule7(v6, data, mean, sd)
    IN rule8(v7, data, mean, sd)

\* ------------------------------------------------------------------ rule engine inputs
MaxN == 16           \* length of the series the inputs are derived from

\* the series the inputs are derived from, as functions of the position
Base(name) ==
    [q \in 1 .. MaxN |->
        CASE name = "alt" -> IF q % 2 = 1 THEN 1 ELSE 5
          [] name = "inc" -> q
          [] name = "dec" -> MaxN + 1 - q
          [] name = "flat" -> 3
          [] name = "edge" -> IF q = 10 THEN 500 ELSE 10
          [] name = "far" -> IF q % 3 = 0 THEN 9 ELSE -3]

BaseNames == {"alt", "inc", "dec", "flat", "edge", "far"}

\* values written over one point of a series
PokeValues == {3, 100, NaN}

\* mean and standard deviation handed to the engine
StatsPool ==
    ({3, 8, 100} \X {0, 1, 2}) \cup {<< 59, 147 >>, << NaN, NaN >>}

Cut(s, n) == SubSeq(s, 1, n)
Poke(s, p, x) == [s EXCEPT ![p] = x]
\* the series with a copy of its value at position j inserted next to it
Dup(s, j) == SubSeq(s, 1, j) \o SubSeq(s, j, Len(s))

RuleCall(base, kind, n, p, x, data, st) ==
    [fn |-> "checkNelsonRules", base |-> base, kind |-> kind, n |-> n, p |-> p,
     x |-> x, data |-> data, mean |-> st[1], sd |-> st[2], returned |-> FALSE]

RuleInputs ==
    UNION {
        {RuleCall(b, "cut", n, 0, 0, Cut(Base(b), n), st) : n \in 0 .. MaxN}
        \cup {RuleCall(b, "poke", MaxN, p, x, Poke(Base(b), p, x), st) :
                 p \in 1 .. MaxN, x \in PokeValues}
        \cup UNION {{RuleCall(b, "dup", n, j, 0, Dup(Cut(Base(b), n), j), st) :
                        j \in 1 .. n} : n \in 14 .. MaxN}
        : b \in BaseNames, st \in StatsPool}

RulesInit ==
    /\ SyncIdle
    /\ call \in RuleInputs
    /\ result = << >>

\* weightViolations / hardnessViolations: one evaluation of the engine
Evaluate ==
    /\ call.fn = "checkNelsonRules"
    /\ ~call.returned
    /\ result' = checkNelsonRules(call.data, call.mean, call.sd)
    /\ call' = [call EXCEPT !.returned = TRUE]
    /\ UNCHANGED syncVars

RulesNext == Evaluate

SpecRules == RulesInit /\ [][RulesNext]_vars

Evaluated == call.fn = "checkNelsonRules" /\ call.returned

\* rule k is in the violation set of position q
Flagged(k, q) == \E j \in 1 .. Len(result[q]) : result[q][j] = k

\* ------------------------------------------------------------------ C13
\* the smallest window of each rule
MinWindow == << 1, 9, 6, 14, 3, 5, 15, 8 >>

\* C13 (window minimums): whatever the series, the mean and the standard
\* deviation, rule r is never in the violation set of a point that has fewer
\* than MinWindow[r] values up to and including itself (index i < w(r) - 1).
C13_WindowMinimums ==
    Evaluated =>
        /\ Len(result) = Len(call.data)
        /\ \A q \in 1 .. Len(result) : \A r \in 1 .. 8 :
              Flagged(r, q) => q >= MinWindow[r]

\* rules 1, 2, 4, 5, 6 and 8 each flag the first point they can, and none
\* flags an earlier one
C13_Witness ==
    /\ Evaluated
    /\ Len(result) >= 14
    /\ \A r \in {1, 2, 4, 5, 6, 8} :
          /\ Flagged(r, MinWindow[r])
          /\ \A q \in 1 .. MinWindow[r] - 1 : ~Flagged(r, q)

\* ------------------------------------------------------------------ C14
\* C14 (no lookahead): for a fixed mean and standard deviation, evaluating
\* any prefix of the series gives, at every point of the prefix, the same
\* violation set as evaluating the whole series.
C14_NoLookahead ==
    Evaluated =>
        \A n \in 0 .. Len(call.data) :
            LET short == checkNelsonRules(Cut(call.data, n), call.mean, call.sd)
            IN \A q \in 1 .. n : short[q] = result[q]

\* a series whose last value was overwritten and breaks a run that an
\* earlier point was flagged for
C14_Witness ==
    /\ Evaluated
    /\ call.kind = "poke"
    /\ call.p = Len(call.data)
    /\ Flagged(3, 6)
    /\ Flagged(3, Len(call.data) - 1)
    /\ ~Flagged(3, Len(call.data))

\* ------------------------------------------------------------------ C15
\* the differences a and b have strictly opposite signs
OppositeSigns(a, b) ==
    \/ FGt(a, 0) /\ FLt(b, 0)
    \/ FLt(a, 0) /\ FGt(b, 0)

\* each of the 12 pairs of successive differences of the 14 values ending at
\* position q has strictly opposite signs
StrictlyAlternates(data, q) ==
    LET sl == Slice(data, q, 14)
    IN \A j \in 3 .. 14 :
          OppositeSigns(FSub(sl[j], sl[j - 1]), FSub(sl[j - 1], sl[j - 2]))

\* C15 (rule 4): a point is flagged with rule 4 exactly when it has at least
\* 13 predecessors and each of the 12 pairs of successive differences in the
\* 14 values ending at it has strictly opposite signs; two equal consecutive
\* values inside the window prevent the flag.
C15_Rule4 ==
    Evaluated =>
        \A q \in 1 .. Len(result) :
            /\ Flagged(4, q) <=> (q >= 14 /\ StrictlyAlternates(call.data, q))
            /\ (q >= 14 /\ \E j \in q - 12 .. q :
                               /\ call.data[j] # NaN
                               /\ call.data[j] = call.data[j - 1])
                  => ~Flagged(4, q)

\* ------------------------------------------------------------------ C16
\* the 14 values 1, 5, 1, 5, ..., 1, 5
AltExample == [q \in 1 .. 14 |-> IF q % 2 = 1 THEN 1 ELSE 5]

\* C16 as stated (rule 4 example): the last point of AltExample is flagged
\* with rule 4, and after inserting a copy of a neighbouring value at any
\* position the last point is not flagged with rule 4.
C16_InsertAnywhere ==
    Evaluated =>
        /\ call.data = AltExample => Flagged(4, 14)
        /\ \A j \in 1 .. 14 : call.data = Dup(AltExample, j) => ~Flagged(4, 15)

\* C16 (rule 4 example, amended): the last point of AltExample is flagged
\* with rule 4; after inserting a copy of a neighbouring value the last point
\* is not flagged when the two equal values lie within the last 14 values,
\* that is for every insertion but the doubling of the first value, which
\* leaves the last point flagged.
C16_Rule4Example ==
    Evaluated =>
        /\ call.data = AltExample => Flagged(4, 14)
        /\ \A j \in 2 .. 14 : call.data = Dup(AltExample, j) => ~Flagged(4, 15)
        /\ call.data = Dup(AltExample, 1) => Flagged(4, 15)

\* the first value doubled: the point that was last before is no longer
\* flagged, the new last point is
C16_Witness ==
    /\ Evaluated
    /\ call.data = Dup(AltExample, 1)
    /\ call.mean = 3
    /\ ~Flagged(4, 14)
    /\ Flagged(4, 15)

\* ------------------------------------------------------------------ C17
Numbers(s) == \A q \in 1 .. Len(s) : s[q] # NaN

\* |a - b| on numbers
Dist(a, b) == IF a >= b THEN a - b ELSE b - a

\* v lies more than k standard deviations from the mean
Beyond(v, k, mean, sd) ==
    /\ v # NaN /\ mean # NaN /\ sd # NaN
    /\ Dist(v, mean) > k * sd

RECURSIVE SumOver(_)
SumOver(s) == IF s = << >> THEN 0 ELSE Head(s) + SumOver(Tail(s))

\* mean and sd are the mean and the population standard deviation of s
OwnStats(s, mean, sd) ==
    /\ Len(s) > 0 /\ Numbers(s) /\ mean # NaN /\ sd # NaN /\ sd >= 0
    /\ SumOver(s) = mean * Len(s)
    /\ SumOver([q \in 1 .. Len(s) |-> (s[q] - mean) * (s[q] - mean)])
          = sd * sd * Len(s)

\* nine 10s followed by 500
EdgeExample == [q \in 1 .. 10 |-> IF q = 10 THEN 500 ELSE 10]

\* C17 (rule 1): a point is flagged with rule 1 exactly when its value lies
\* strictly more than 3 standard deviations from the mean; a value exactly 3
\* standard deviations away is not flagged, as for the last of nine 10s
\* followed by 500 with the series' own mean 59 and population deviation 147.
C17_Rule1 ==
    Evaluated =>
        /\ \A q \in 1 .. Len(result) :
              /\ Flagged(1, q) <=> Beyond(call.data[q], 3, call.mean, call.sd)
              /\ (Numbers(<< call.data[q], call.mean, call.sd >>)
                    /\ Dist(call.data[q], call.mean) = 3 * call.sd)
                    => ~Flagged(1, q)
        /\ OwnStats(EdgeExample, 59, 147)
        /\ (call.data = EdgeExample /\ call.mean = 59 /\ call.sd = 147)
              => ~Flagged(1, 10)

\* the example has been evaluated with its own statistics
C17_Witness ==
    /\ Evaluated
    /\ call.data = EdgeExample
    /\ OwnStats(call.data, call.mean, call.sd)
    /\ Dist(call.data[10], call.mean) = 3 * call.sd
    /\ ~Flagged(1, 10)

\* ------------------------------------------------------------------ C18
Above(v, mean) == v # NaN /\ mean # NaN /\ v > mean
Below(v, mean) == v # NaN /\ mean # NaN /\ v < mean

\* the w values ending at position q
Window(q, w) == {call.data[j] : j \in q - w + 1 .. q}

\* C18 (rule 2): a point is flagged with rule 2 exactly when it has at least
\* 8 predecessors and the 9 values ending at it are all strictly greater or
\* all strictly less than the mean; a value equal to the mean in the window
\* prevents the flag; the values 1..9 with mean 100 flag the last point.
C18_Rule2 ==
    Evaluated =>
        /\ \A q \in 1 .. Len(result) :
              /\ Flagged(2, q) <=>
                    /\ q >= 9
                    /\ \/ \A v \in Window(q, 9) : Above(v, call.mean)
                       \/ \A v \in Window(q, 9) : Below(v, call.mean)
              /\ (q >= 9 /\ call.mean \in Window(q, 9)) => ~Flagged(2, q)
        /\ (call.data = [q \in 1 .. 9 |-> q] /\ call.mean = 100)
              => Flagged(2, 9)

\* the values 1..9 have been evaluated against the mean 100
C18_Witness ==
    /\ Evaluated
    /\ call.data = [q \in 1 .. 9 |-> q]
    /\ call.mean = 100
    /\ Flagged(2, 9)
    /\ \A q \in 1 .. 8 : ~Flagged(2, q)

\* ------------------------------------------------------------------ C19
\* the 6 values ending at position q go strictly up (dir = 1) or down (-1)
Monotone(q, dir) ==
    \A j \in q - 4 .. q :
        /\ call.data[j] # NaN /\ call.data[j - 1] # NaN
        /\ dir * (call.data[j] - call.data[j - 1]) > 0

\* C19 (rule 3): a point is flagged with rule 3 exactly when it has at least
\* 5 predecessors and the 6 values ending at it are strictly increasing or
\* strictly decreasing; two equal consecutive values in the window prevent
\* the flag.
C19_Rule3 ==
    Evaluated =>
        \A q \in 1 .. Len(result) :
            /\ Flagged(3, q) <=> (q >= 6 /\ (Monotone(q, 1) \/ Monotone(q, -1)))
            /\ (q >= 6 /\ \E j \in q - 4 .. q : call.data[j] = call.data[j - 1])
                  => ~Flagged(3, q)

\* an increasing series whose value at position 14 is repeated: the run is
\* flagged up to there and the repeated value is not
C19_Witness ==
    /\ Evaluated
    /\ call.base = "inc" /\ call.kind = "dup" /\ call.p = 14
    /\ call.data[15] = call.data[14]
    /\ Flagged(3, 14)
    /\ ~Flagged(3, 15)

\* ------------------------------------------------------------------ C20
\* how many of the w values ending at position q lie more than k standard
\* deviations from the mean
Outliers(q, w, k) ==
    Cardinality({j \in q - w + 1 .. q :
                    Beyond(call.data[j], k, call.mean, call.sd)})

\* C20 (rules 5 and 6): a point is flagged with rule 5 exactly when it has at
\* least 2 predecessors and at least 2 of the 3 values ending at it lie more
\* than 2 standard deviations from the mean, and with rule 6 exactly when it
\* has at least 4 predecessors and at least 4 of the 5 values ending at it
\* lie more than 1 standard deviation from the mean, whatever side of the
\* mean each value is on.
C20_CountingRules ==
    Evaluated =>
        \A q \in 1 .. Len(result) :
            /\ Flagged(5, q) <=> (q >= 3 /\ Outliers(q, 3, 2) >= 2)
            /\ Flagged(6, q) <=> (q >= 5 /\ Outliers(q, 5, 1) >= 4)

\* both rules flag a window whose outliers are counted across the mean: each
\* side alone is short of the count
C20_Witness ==
    /\ Evaluated
    /\ Len(result) >= 5
    /\ Numbers(call.data)
    /\ call.sd > 0
    /\ Flagged(5, 3)
    /\ Flagged(6, 5)
    /\ Cardinality({j \in 1 .. 3 : Above(call.data[j], call.mean)}) = 1
    /\ Cardinality({j \in 1 .. 3 : Below(call.data[j], call.mean)}) = 1
    /\ Cardinality({j \in 1 .. 5 : Above(call.data[j], call.mean)}) < 4
    /\ Cardinality({j \in 1 .. 5 : Below(call.data[j], call.mean)}) < 4

\* ------------------------------------------------------------------ C21
\* v lies less than one standard deviation from the mean
Within(v, mean, sd) ==
    /\ v # NaN /\ mean # NaN /\ sd # NaN
    /\ Dist(v, mean) < sd

\* C21 (rules 7 and 8): a point is flagged with rule 7 exactly when it has at
\* least 14 predecessors and all 15 values ending at it lie less than one
\* standard deviation from the mean, and with rule 8 exactly when it has at
\* least 7 predecessors and all 8 values ending at it lie more than one
\* standard deviation from the mean; a value exactly one standard deviation
\* away prevents both, and with a standard deviation of 0 rule 7 never flags.
C21_BandRules ==
    Evaluated =>
        \A q \in 1 .. Len(result) :
            /\ Flagged(7, q) <=>
                  /\ q >= 15
                  /\ \A v \in Window(q, 15) : Within(v, call.mean, call.sd)
            /\ Flagged(8, q) <=>
                  /\ q >= 8
                  /\ \A v \in Window(q, 8) : Beyond(v, 1, call.mean, call.sd)
            /\ (q >= 8 /\ Numbers(<< call.mean, call.sd >>)
                  /\ \E j \in q - 7 .. q :
                        /\ call.data[j] # NaN
                        /\ Dist(call.data[j], call.mean) = call.sd)
                  => (~Flagged(7, q) /\ ~Flagged(8, q))
            /\ call.sd = 0 => ~Flagged(7, q)

\* a quiet series is flagged with rule 7 at its 15th point and not before
C21_Witness ==
    /\ Evaluated
    /\ Len(result) >= 15
    /\ call.sd > 0
    /\ Flagged(7, 15)
    /\ ~Flagged(8, 15)
    /\ \A q \in 1 .. 14 : ~Flagged(7, q)

\* ------------------------------------------------------------------ C22
\* the violation set of position q when rule k is evaluated on its own
Alone(k, q) ==
    LET v0 == [p \in 1 .. Len(call.data) |-> << >>]
        v == CASE k = 1 -> rule1(v0, call.data, call.mean, call.sd)
               [] k = 2 -> rule2(v0, call.data, call.mean, call.sd)
               [] k = 3 -> rule3(v0, call.data, call.mean, call.sd)
               [] k = 4 -> rule4(v0, call.data, call.mean, call.sd)
               [] k = 5 -> rule5(v0, call.data, call.mean, call.sd)
               [] k = 6 -> rule6(v0, call.data, call.mean, call.sd)
               [] k = 7 -> rule7(v0, call.data, call.mean, call.sd)
               [] k = 8 -> rule8(v0, call.data, call.mean, call.sd)
    IN v[q]

\* C22 (output shape): the result has one violation set per input value, in
\* input order (an empty input gives an empty result); every set holds only
\* rule numbers from 1 to 8, in strictly ascending order, and holds every
\* rule that matches the point on its own.
C22_OutputShape ==
    Evaluated =>
        /\ Len(result) = Len(call.data)
        /\ call.data = << >> => result = << >>
        /\ \A q \in 1 .. Len(result) :
              /\ \A j \in 1 .. Len(result[q]) : result[q][j] \in 1 .. 8
              /\ \A j \in 2 .. Len(result[q]) : result[q][j - 1] < result[q][j]
              /\ \A k \in 1 .. 8 : Flagged(k, q) <=> Alone(k, q) = << k >>

\* a point matched by four rules carries the four of them
C22_Witness ==
    /\ Evaluated
    /\ \E q \in 1 .. Len(result) : Len(result[q]) >= 4

\* ------------------------------------------------------------------ C28
\* C28 (rule 7 against the distance rules): with a standard deviation that is
\* not negative, a point flagged with rule 7 is flagged with none of the
\* rules 1, 5, 6 and 8.
C28_Rule7Excludes ==
    (Evaluated /\ call.sd # NaN /\ call.sd >= 0) =>
        \A q \in 1 .. Len(result) :
            Flagged(7, q) => \A k \in {1, 5, 6, 8} : ~Flagged(k, q)

\* a quiet series ending in an outlier: rule 7 holds up to the outlier, which
\* is flagged with rule 1 and not with rule 7
C28_Witness ==
    /\ Evaluated
    /\ Len(result) >= 16
    /\ call.sd > 0
    /\ Flagged(7, 15)
    /\ result[15] = << 7 >>
    /\ Flagged(1, 16)
    /\ ~Flagged(7, 16)

\* ------------------------------------------------------------------ natural numbers of any size
\* A JavaScript Number is an IEEE 754 double; its 53-bit significand does not
\* fit a model integer, so significands are sequences of limbs, least
\* significant first, without leading zero limbs (<< >> is 0).
LimbBits == 15
Limb == 2 ^ LimbBits

Rest(a) == IF a = << >> THEN << >> ELSE Tail(a)
Low(a) == IF a = << >> THEN 0 ELSE Head(a)

RECURSIVE Trim(_)
Trim(a) ==
    IF a = << >> THEN a
    ELSE IF a[Len(a)] = 0 THEN Trim(SubSeq(a, 1, Len(a) - 1)) ELSE a

RECURSIVE BigNat(_)
BigNat(n) == IF n = 0 THEN << >> ELSE << n % Limb >> \o BigNat(n \div Limb)

RECURSIVE AddCarry(_, _, _)
AddCarry(a, b, c) ==
    IF a = << >> /\ b = << >>
    THEN IF c = 0 THEN << >> ELSE << c >>
    ELSE LET x == Low(a) + Low(b) + c
         IN << x % Limb >> \o AddCarry(Rest(a), Rest(b), x \div Limb)

BigAdd(a, b) == AddCarry(a, b, 0)

RECURSIVE SubBorrow(_, _, _)
SubBorrow(a, b, c) ==
    IF a = << >> THEN << >>
    ELSE LET x == Low(a) - Low(b) - c
         IN << x % Limb >> \o SubBorrow(Rest(a), Rest(b), IF x < 0 THEN 1 ELSE 0)

\* a - b for a >= b
BigSub(a, b) == Trim(SubBorrow(a, b, 0))

\* the highest limb in which a and b differ decides; 0 when they are equal
RECURSIVE CmpFrom(_, _, _)
CmpFrom(a, b, i) ==
    IF i = 0 THEN 0
    ELSE IF a[i] > b[i] THEN 1
    ELSE IF a[i] < b[i] THEN -1
    ELSE CmpFrom(a, b, i - 1)

\* -1, 0 or 1 as a < b, a = b or a > b
BigCmp(a, b) ==
    IF Len(a) > Len(b) THEN 1
    ELSE IF Len(a) < Len(b) THEN -1
    ELSE CmpFrom(a, b, Len(a))

RECURSIVE MulLimb(_, _, _)
MulLimb(a, k, c) ==
    IF a = << >>
    THEN IF c = 0 THEN << >> ELSE << c >>
    ELSE LET x == Head(a) * k + c
         IN << x % Limb >> \o MulLimb(Tail(a), k, x \div Limb)

RECURSIVE BigMul(_, _)
BigMul(a, b) ==
    IF a = << >> \/ b = << >> THEN << >>
    ELSE BigAdd(MulLimb(a, Head(b), 0),
                IF Tail(b) = << >> THEN << >> ELSE << 0 >> \o BigMul(a, Tail(b)))

\* a * 2^k
Shl(a, k) ==
    IF a = << >> THEN << >>
    ELSE [i \in 1 .. k \div LimbBits |-> 0] \o MulLimb(a, 2 ^ (k % LimbBits), 0)

\* a \div 2^k
Shr(a, k) ==
    LET d == k \div LimbBits
        r == k % LimbBits
        n == Len(a) - d
    IN IF n <= 0 THEN << >>
       ELSE Trim([i \in 1 .. n |->
                    a[i + d] \div 2 ^ r
                    + (IF i + d < Len(a) THEN a[i + d + 1] % 2 ^ r ELSE 0)
                      * 2 ^ (LimbBits - r)])

RECURSIVE SmallBits(_)
SmallBits(n) == IF n = 0 THEN 0 ELSE 1 + SmallBits(n \div 2)

\* number of bits of a: 0 for 0
BitLen(a) ==
    IF a = << >> THEN 0 ELSE (Len(a) - 1) * LimbBits + SmallBits(a[Len(a)])

Odd(a) == Low(a) % 2 = 1

\* the largest digit d in lo .. hi with b * d <= r, when b * lo <= r
RECURSIVE DivDigit(_, _, _, _)
DivDigit(r, b, lo, hi) ==
    IF lo = hi THEN lo
    ELSE LET mid == (lo + hi + 1) \div 2
         IN IF BigCmp(MulLimb(b, mid, 0), r) <= 0
            THEN DivDigit(r, b, mid, hi)
            ELSE DivDigit(r, b, lo, mid - 1)

\* long division, one limb of a at a time from limb i down:
\* << quotient, remainder >>
RECURSIVE DivStep(_, _, _, _, _)
DivStep(a, b, i, q, r) ==
    IF i = 0 THEN << Trim(q), r >>
    ELSE LET r2 == Trim(<< a[i] >> \o r)
             d == DivDigit(r2, b, 0, Limb - 1)
         IN IF d = 0
            THEN DivStep(a, b, i - 1, << 0 >> \o q, r2)
            ELSE DivStep(a, b, i - 1, << d >> \o q, BigSub(r2, MulLimb(b, d, 0)))

\* a \div b and a % b for b # 0
BigDivMod(a, b) == DivStep(a, b, Len(a), << >>, << >>)

\* the largest digit d in lo .. hi with (r + d * Limb^j)^2 <= n, when lo is one
RECURSIVE SqrtDigit(_, _, _, _, _)
SqrtDigit(n, r, j, lo, hi) ==
    IF lo = hi THEN lo
    ELSE LET mid == (lo + hi + 1) \div 2
             c == BigAdd(r, Shl(<< mid >>, j * LimbBits))
         IN IF BigCmp(BigMul(c, c), n) <= 0
            THEN SqrtDigit(n, r, j, mid, hi)
            ELSE SqrtDigit(n, r, j, lo, mid - 1)

\* the largest r with r * r <= n, found one limb at a time from limb j down
RECURSIVE SqrtStep(_, _, _)
SqrtStep(n, j, r) ==
    IF j < 0 THEN r
    ELSE LET d == SqrtDigit(n, r, j, 0, Limb - 1)
         IN IF d = 0
            THEN SqrtStep(n, j - 1, r)
            ELSE SqrtStep(n, j - 1, BigAdd(r, Shl(<< d >>, j * LimbBits)))

BigSqrt(n) == SqrtStep(n, Len(n) \div 2, << >>)

\* ------------------------------------------------------------------ doubles
\* A double is NaN, an infinity, or the finite number (-1)^neg * m * 2^e with
\* m odd (or m = 0 and e = 0) and m below 2^53. Subnormal numbers, overflow
\* and the sign of zero are left out: no value of the model comes near them.
SignificandBits == 53

DNaN == [cls |-> "nan", neg |-> FALSE, m |-> << >>, e |-> 0]
DInf(neg) == [cls |-> "inf", neg |-> neg, m |-> << >>, e |-> 0]
DZero == [cls |-> "fin", neg |-> FALSE, m |-> << >>, e |-> 0]

IsNaN(x) == x.cls = "nan"
IsInf(x) == x.cls = "inf"
IsZero(x) == x.cls = "fin" /\ x.m = << >>

RECURSIVE SmallZeros(_)
SmallZeros(n) == IF n % 2 = 1 THEN 0 ELSE 1 + SmallZeros(n \div 2)

\* number of zero bits at the low end of m # 0
RECURSIVE TrailingZeros(_)
TrailingZeros(m) ==
    IF Head(m) = 0 THEN LimbBits + TrailingZeros(Tail(m)) ELSE SmallZeros(Head(m))

\* the double (-1)^neg * m * 2^e for m below 2^53
Canon(neg, m, e) ==
    IF m = << >> THEN DZero
    ELSE LET z == TrailingZeros(m)
         IN [cls |-> "fin", neg |-> neg, m |-> Shr(m, z), e |-> e + z]

\* (-1)^neg * m * 2^e rounded to the nearest double, ties to even
DRound(neg, m, e) ==
    LET s == BitLen(m) - SignificandBits
    IN IF s <= 0 THEN Canon(neg, m, e)
       ELSE LET q == Shr(m, s)
                c == BigCmp(BigSub(m, Shl(q, s)), Shl(<< 1 >>, s - 1))
                up == c > 0 \/ (c = 0 /\ Odd(q))
            IN Canon(neg, IF up THEN BigAdd(q, << 1 >>) ELSE q, e + s)

\* an integer of the model as a double
DFromInt(n) == Canon(n < 0, BigNat(IF n < 0 THEN -n ELSE n), 0)

\* a value of a series as a double
DNum(v) == IF v = NaN THEN DNaN ELSE DFromInt(v)

DNeg(x) == IF x.cls = "nan" \/ IsZero(x) THEN x ELSE [x EXCEPT !.neg = ~x.neg]
DAbs(x) == [x EXCEPT !.neg = FALSE]

\* x + y
DAdd(x, y) ==
    IF IsNaN(x) \/ IsNaN(y) THEN DNaN
    ELSE IF IsInf(x) THEN (IF IsInf(y) /\ y.neg # x.neg THEN DNaN ELSE x)
    ELSE IF IsInf(y) THEN y
    ELSE LET lo == IF x.e < y.e THEN x.e ELSE y.e
             a == Shl(x.m, x.e - lo)
             b == Shl(y.m, y.e - lo)
             c == BigCmp(a, b)
         IN IF x.neg = y.neg THEN DRound(x.neg, BigAdd(a, b), lo)
            ELSE IF c = 0 THEN DZero
            ELSE IF c > 0 THEN DRound(x.neg, BigSub(a, b), lo)
            ELSE DRound(y.neg, BigSub(b, a), lo)

\* x - y
DSub(x, y) == DAdd(x, DNeg(y))

\* x * y
DMul(x, y) ==
    IF IsNaN(x) \/ IsNaN(y) THEN DNaN
    ELSE IF IsInf(x) \/ IsInf(y)
    THEN (IF IsZero(x) \/ IsZero(y) THEN DNaN ELSE DInf(x.neg # y.neg))
    ELSE DRound(x.neg # y.neg, BigMul(x.m, y.m), x.e + y.e)

\* x / y
DDiv(x, y) ==
    IF IsNaN(x) \/ IsNaN(y) THEN DNaN
    ELSE IF IsInf(x) THEN (IF IsInf(y) THEN DNaN ELSE DInf(x.neg # y.neg))
    ELSE IF IsInf(y) THEN DZero
    ELSE IF IsZero(y) THEN (IF IsZero(x) THEN DNaN ELSE DInf(x.neg # y.neg))
    ELSE IF IsZero(x) THEN DZero
    ELSE LET d == SignificandBits + 3 + BitLen(y.m) - BitLen(x.m)
             k == IF d > 0 THEN d ELSE 0
             qr == BigDivMod(Shl(x.m, k), y.m)
             sticky == IF qr[2] = << >> THEN << >> ELSE << 1 >>
         IN DRound(x.neg # y.neg, BigAdd(Shl(qr[1], 1), sticky),
                   x.e - y.e - k - 1)

\* Math.sqrt(x)
DSqrt(x) ==
    IF IsNaN(x) THEN DNaN
    ELSE IF IsZero(x) THEN DZero
    ELSE IF x.neg THEN DNaN
    ELSE IF IsInf(x) THEN x
    ELSE LET k0 == 2 * SignificandBits + 6 - BitLen(x.m)
             k == IF (x.e - k0) % 2 = 0 THEN k0 ELSE k0 + 1
             n == Shl(x.m, k)
             r == BigSqrt(n)
             sticky == IF BigMul(r, r) = n THEN << >> ELSE << 1 >>
         IN DRound(FALSE, BigAdd(Shl(r, 1), sticky), (x.e - k) \div 2 - 1)

\* x > y: false when an operand is NaN
DGt(x, y) ==
    LET d == DSub(x, y)
    IN ~IsNaN(d) /\ ~IsZero(d) /\ ~d.neg

\* ------------------------------------------------------------------ statistics
\* arr.reduce((a, b) => a + b, acc); a sum that is NaN stays NaN
RECURSIVE SumValues(_, _)
SumValues(arr, acc) ==
    IF arr = << >> \/ IsNaN(acc) THEN acc
    ELSE SumValues(Tail(arr), DAdd(acc, DNum(Head(arr))))

\* Math.pow(x, 2), taken as the correctly rounded square
Square(x) == DMul(x, x)

\* arr.reduce((sum, val) => sum + Math.pow(val - avg, 2), acc); a sum that is
\* NaN stays NaN
RECURSIVE SumSquares(_, _, _)
SumSquares(arr, avg, acc) ==
    IF arr = << >> \/ IsNaN(acc) THEN acc
    ELSE SumSquares(Tail(arr), avg,
                    DAdd(acc, Square(DSub(DNum(Head(arr)), avg))))

\* calcStats: mean, population standard deviation, relative deviation in %
calcStats(arr) ==
    LET n == DFromInt(Len(arr))
        avg == DDiv(SumValues(arr, DZero), n)
        sd == DSqrt(DDiv(SumSquares(arr, avg, DZero), n))
        rsd == DMul(DDiv(sd, avg), DFromInt(100))
    IN [avg |-> avg, sd |-> sd, rsd |-> rsd]

\* Math.abs(val - mean) > 3 * sd, the test of rule 1, on doubles
BeyondThreeSigma(val, mean, sd) ==
    DGt(DAbs(DSub(val, mean)), DMul(DFromInt(3), sd))

\* the positions rule 1 flags when checkNelsonRules is given the series and
\* the statistics calcStats made of it
rule1OwnStats(data, stats) ==
    {q \in 1 .. Len(data) : BeyondThreeSigma(DNum(data[q]), stats.avg, stats.sd)}

\* ------------------------------------------------------------------ statistics inputs
MaxSamples == 11     \* longest series given to calcStats

\* n values b, the one at position p replaced by o
OneOut(n, b, o, p) == [q \in 1 .. n |-> IF q = p THEN o ELSE b]

StatsInputs ==
    {<< >>, << -1, 1 >>, << -3, 0, 3 >>, << 272, 268, 275, 265, 278 >>}
    \cup UNION {{OneOut(n, b, o, p) : p \in 1 .. n, b \in {0, 10}, o \in {0, 1, 7, 500}}
                : n \in 1 .. MaxSamples}

StatsInit ==
    /\ SyncIdle
    /\ call \in {[fn |-> "calcStats", data |-> d, returned |-> FALSE] :
                    d \in StatsInputs}
    /\ result = << >>

\* one rendering of the dashboard: the statistics of the series, then the
\* rule engine on the series with these statistics (its rule 1 here)
Render ==
    /\ call.fn = "calcStats"
    /\ ~call.returned
    /\ LET stats == calcStats(call.data)
       IN result' = [stats |-> stats, rule1 |-> rule1OwnStats(call.data, stats)]
    /\ call' = [call EXCEPT !.returned = TRUE]
    /\ UNCHANGED syncVars

StatsNext == Render

SpecStats == StatsInit /\ [][StatsNext]_vars

Rendered == call.fn = "calcStats" /\ call.returned

\* ------------------------------------------------------------------ C23
\* C23 (degenerate statistics): for an empty series mean, standard deviation
\* and relative deviation are all NaN, and for a series that is not empty
\* and has mean 0 the relative deviation is NaN whatever the deviation.
C23_DegenerateStats ==
    Rendered =>
        /\ call.data = << >> =>
              /\ IsNaN(result.stats.avg)
              /\ IsNaN(result.stats.sd)
              /\ IsNaN(result.stats.rsd)
        /\ (call.data # << >> /\ IsZero(result.stats.avg)) =>
              IsNaN(result.stats.rsd)

\* ------------------------------------------------------------------ C27
\* C27 (rule 1 needs 11 samples): with the mean and the population standard
\* deviation of the series itself, rule 1 flags no point of a series of 10 or
\* fewer samples.
C27_Rule1NeedsEleven ==
    (Rendered /\ Len(call.data) <= 10) => result.rule1 = {}

\* ------------------------------------------------------------------ one dashboard's table
MaxEdits == 5        \* edits and received series of one dashboard

\* the dashboard whose table is edited
Editor == 1

\* the step taken on the dashboard's series: its name, its arguments and the
\* series it was taken on
Edited(op, id, field, value, before) ==
    [fn |-> op, id |-> id, field |-> field, value |-> value, before |-> before]

\* useState([]): the dashboard starts with no samples
EditInit ==
    /\ SyncIdle
    /\ call = NoCall
    /\ result = << >>

\* setSamples(s) of the handler op
SetSamples(s, op, id, field, value) ==
    /\ inputs < MaxEdits
    /\ samples' = [samples EXCEPT ![Editor] = s]
    /\ call' = Edited(op, id, field, value, samples[Editor])
    /\ inputs' = inputs + 1
    /\ UNCHANGED << pc, currentData, file, watcher, changePending, connected,
                    inbox, toServer, seq, fileCause, extPending, lastApplied,
                    srvGood, viewGood, got, last, result >>

\* the 'Add Sample' button
TableAdd ==
    /\ Len(samples[Editor]) < MaxLen
    /\ SetSamples(addSample(samples[Editor]), "addSample", 0, "", 0)

\* a cell of the row of a sample is changed
TableUpdate ==
    \E i \in 1 .. Len(samples[Editor]), field \in Fields, value \in EditValues :
        SetSamples(updateSample(samples[Editor], samples[Editor][i].id, field, value),
                   "updateSample", samples[Editor][i].id, field, value)

\* the delete button of the row of a sample
TableDelete ==
    \E i \in 1 .. Len(samples[Editor]) :
        SetSamples(deleteSample(samples[Editor], samples[Editor][i].id),
                   "deleteSample", samples[Editor][i].id, "", 0)

\* socket.on('data-update'): setSamples(newData)
TableReceive(newData) ==
    /\ newData \in UpdatePool
    /\ SetSamples(newData, "data-update", 0, "", 0)

EditNext ==
    \/ TableAdd
    \/ TableUpdate
    \/ TableDelete
    \/ \E newData \in UpdatePool : TableReceive(newData)

SpecEdits == EditInit /\ [][EditNext]_vars

\* the ids of s are pairwise distinct
Distinct(s) == \A i, j \in 1 .. Len(s) : s[i].id = s[j].id => i = j

\* s without its i-th sample
Without(s, i) == SubSeq(s, 1, i - 1) \o SubSeq(s, i + 1, Len(s))

\* ------------------------------------------------------------------ C24
\* C24 (ids stay unique): addSample and deleteSample, applied to a series
\* whose ids are pairwise distinct, give a series whose ids are pairwise
\* distinct, so that uniqueness survives any sequence of them.
C24_IdsStayUnique ==
    (call.fn \in {"addSample", "deleteSample"} /\ Distinct(call.before)) =>
        Distinct(samples[Editor])

\* ------------------------------------------------------------------ C25
\* C25 (single-sample edits): on every series the dashboard reaches,
\* updateSample(id, field, v) sets the field of exactly one sample and keeps
\* length, order, the other field and the other samples, and deleteSample(id)
\* removes exactly one sample and keeps the others in their order.
C25_SingleSampleEdits ==
    LET before == call.before
        after  == samples[Editor]
    IN  /\ call.fn = "updateSample" =>
              /\ Len(after) = Len(before)
              /\ \E i \in 1 .. Len(before) :
                    /\ before[i].id = call.id
                    /\ after[i] = [before[i] EXCEPT ![call.field] = call.value]
                    /\ \A j \in 1 .. Len(before) : j # i => after[j] = before[j]
        /\ call.fn = "deleteSample" =>
              \E i \in 1 .. Len(before) :
                    /\ before[i].id = call.id
                    /\ after = Without(before, i)

\* ------------------------------------------------------------------ saving and reloading
MaxSaved == 2        \* samples of a series that is saved

\* series of samples {id, weight, hardness} given to POST /api/data
SavedSamples == {Sample(i, w, 90) : i \in {0, 1, 7}, w \in {0, 266}}
SavePool == SeqsUpTo(SavedSamples, MaxSaved)

\* a server started on an existing table, so that the watcher is installed
SaveInit ==
    /\ Init
    /\ file = TableStart

SaveNext ==
    \/ Startup
    \/ \E d \in SavePool, ok \in BOOLEAN : PostApiData(d, ok)
    \/ WatcherChange

SpecSave == SaveInit /\ [][SaveNext]_vars

\* ------------------------------------------------------------------ C26
\* C26 (persistence round trip): after an update whose write succeeded, the
\* series loaded from the file is the series that was applied (same length,
\* order, ids and values), and so is the authoritative series after the
\* watcher has reloaded this write.
C26_RoundTrip ==
    lastApplied.saved =>
        /\ last.op = "post" => readExcelFile(file).data = lastApplied.data
        /\ last.op = "change" => currentData = lastApplied.data

====
